---- MODULE Spec2Model ----
(***************************************************************************)
(* The cTrader connection pool (CTraderConnectionPool) and its session     *)
(* wrapper (CTraderConnectionWrapper) as a state machine.                  *)
(*                                                                         *)
(* The pool runs on one asyncio event loop: the code between two awaits    *)
(* that really suspend is one atomic step.  A coroutine suspends only in   *)
(* a vendor call (client.connect / client.send / client.disconnect) and    *)
(* in asyncio.sleep; "await f()" of a coroutine that reaches no such call  *)
(* runs to its end without yielding.  Every action below is therefore the  *)
(* code from one suspension point (or the start of a call) to the next     *)
(* suspension point (or the end of the call).                              *)
(***************************************************************************)
EXTENDS Naturals, Integers, Sequences, FiniteSets, TLC

\* ------------------------------------------------------------------ bounds
\* pool configuration used for checking (CTraderConnectionPool.__init__)
max_connections == 2
\* number of distinct connection keys f"{account_id}_{environment}"
NumKeys == 3
\* number of concurrently running callers (request coroutines)
NumCallers == 2
\* total number of pool calls started in one behaviour
MaxCalls == 3
\* largest reading of the clock datetime.now()
MaxTime == 1
\* pool configuration used for checking: idle timeout, in clock units
idle_timeout == 0

\* largest number of entries of "symbolMapping" in symbols.json
MaxEntries == 2
\* number of distinct vendor symbol ids (cTraderId)
NumIds == 2

Keys == 1..NumKeys
Callers == 1..NumCallers
\* Python's None, for a key or a session that is not there
None == 0
NoKey == None
NoConn == None
\* None as a time stamp that was never set
NoTime == -1

VARIABLES
    HAS_CTRADER_API,  \* module constant: vendor SDK imported (TRUE) or mock mode
    now,              \* current reading of datetime.now()
    connections,      \* pool.connections: dict in insertion order, <<[key, id]>>
    sessions,         \* every CTraderConnectionWrapper ever constructed, by id
    stats,            \* pool.stats
    calls,            \* per caller: the frame of the pool call it is running
    last,             \* the frame of the pool call that ended last
    ncalls,           \* number of pool calls started so far
    cleanup_task,     \* pool._cleanup_task: the _periodic_cleanup coroutine
    shutdown,         \* the cleanup() coroutine of the pool's shutdown
    prices_cache,     \* pool._prices_cache: per symbol, the time of its quote
    mock_positions,   \* pool._mock_positions: the [account, id] pairs held
    config,           \* the resource config/symbols.json as load finds it
    mapper            \* the CTraderDataMapper instance

vars == <<HAS_CTRADER_API, now, connections, sessions, stats, calls, last,
          ncalls, cleanup_task, shutdown, prices_cache, mock_positions,
          config, mapper>>

\* what no operation of the pool changes: the SDK flag set at import, the
\* symbol-mapping resource and the data mapper loaded from it
fixed == <<HAS_CTRADER_API, config, mapper>>

\* the pool's price cache and test store: only get_price, close_position and
\* add_mock_position write them
side_stores == <<prices_cache, mock_positions>>
\* what the steps of get_connection and execute_trade leave alone
background == <<cleanup_task, shutdown, side_stores>>
\* what the background coroutines' steps leave alone
foreground == <<calls, last, ncalls, side_stores>>

\* ------------------------------------------------------- dict operations
\* key in self.connections
HasKey(conns, k) == \E i \in 1..Len(conns) : conns[i].key = k

\* self.connections[key]  (only used where the key is present)
Lookup(conns, k) == (CHOOSE i \in 1..Len(conns) : conns[i].key = k)

ConnOf(conns, k) == conns[Lookup(conns, k)].id

\* del self.connections[key]
Del(conns, k) == SelectSeq(conns, LAMBDA e : e.key # k)

\* self.connections[key] = conn : an existing key keeps its place in the
\* iteration order, a new key goes last
Put(conns, k, id) ==
    IF HasKey(conns, k)
    THEN [i \in 1..Len(conns) |->
            IF conns[i].key = k THEN [key |-> k, id |-> id] ELSE conns[i]]
    ELSE Append(conns, [key |-> k, id |-> id])

KeysOf(conns) == {conns[i].key : i \in 1..Len(conns)}
IdsOf(conns) == {conns[i].id : i \in 1..Len(conns)}

\* ------------------------------------------------------------- sessions
\* CTraderConnectionWrapper.__init__ at clock reading t
NewSession(k, t) ==
    [key |-> k, client |-> FALSE, is_connected |-> FALSE, last_used |-> t,
     connection_count |-> 0, error_count |-> 0,
     positions_cache |-> {}, orders_cache |-> {},
     account_info_cache |-> FALSE, cache_timestamp |-> NoTime]

\* CTraderConnectionWrapper.update_last_used
update_last_used(s, t) == [s EXCEPT !.last_used = t]

\* the store the pool code works on, threaded through the code segments
Store ==
    [connections |-> connections, sessions |-> sessions, stats |-> stats,
     prices_cache |-> prices_cache, mock_positions |-> mock_positions]

\* ---------------------------------------------------------- call frames
\* the dict get_stats returns (lines 536-543), before any call of it
NoStats ==
    [connectionsCreated |-> 0, connectionsReused |-> 0, tradesExecuted |-> 0,
     errors |-> 0, activeConnections |-> 0,
     reuse_ratio |-> [num |-> 0, den |-> 1]]

IdleFrame ==
    [pc |-> "idle", op |-> "none", seq |-> 0, key |-> NoKey, creds |-> FALSE,
     symbol |-> "none", conn |-> NoConn, oldest_key |-> NoKey,
     reused |-> FALSE, stale |-> NoConn, evicted |-> NoConn,
     outcome |-> "none", success |-> FALSE, error |-> "none",
     position |-> None, result |-> "none", sent |-> 0, failed |-> FALSE,
     found |-> FALSE, seen |-> 0, size |-> 0, max_age_seconds |-> 0,
     reply |-> NoStats]

\* ----------------------------------------------------------- data mapper
\* the trade symbols a caller may name, and the ones symbols.json maps
Symbols == {"EURUSD", "XXXYYY"}
symbol_mapping == {"EURUSD"}

\* CTraderDataMapper.get_symbol_mapping: truthy exactly for a mapped symbol
get_symbol_mapping(sym) == sym \in symbol_mapping

\* The resource symbols.json: missing (open raises), malformed (json.load
\* raises) or a JSON object whose "symbolMapping" is the sequence entries,
\* in file order, of [symbol, cTraderId]; symbols are the keys of a JSON
\* object, hence distinct.  cTraderId = None stands for an entry without
\* the key 'cTraderId'.
NeutralSymbols == {"EURUSD", "GBPUSD", "XAUUSD"}
Ids == 1..NumIds

Entries == [symbol : NeutralSymbols, cTraderId : Ids \cup {None}]

EntryLists ==
    UNION {{es \in [1..n -> Entries] :
               \A i, j \in 1..n : i # j => es[i].symbol # es[j].symbol}
           : n \in 0..MaxEntries}

Configs ==
    {[kind |-> k, entries |-> <<>>] : k \in {"missing", "malformed"}}
        \cup {[kind |-> "json", entries |-> es] : es \in EntryLists}

\* the resource the pool model runs with: it maps the symbols of
\* symbol_mapping
StandardConfig ==
    [kind |-> "json", entries |-> <<[symbol |-> "EURUSD", cTraderId |-> 1]>>]

\* CTraderDataMapper.__init__, lines 16-17: both mappings empty.  A dict is
\* the sequence of its items for symbol_mapping and a function from vendor
\* id to neutral symbol ('mt5Symbol') for reverse_symbol_mapping.
NewMapper ==
    [outcome |-> "none", symbol_mapping |-> <<>>,
     reverse_symbol_mapping |-> <<>>]

\* self.reverse_symbol_mapping[id] = {**mapping, 'mt5Symbol': sym}
SetReverse(rev, id, sym) ==
    [x \in DOMAIN rev \cup {id} |-> IF x = id THEN sym ELSE rev[x]]

\* load_symbol_mapping, "Create reverse mapping" (lines 34-38) from item i:
\* mapping['cTraderId'] raises KeyError for an entry without that key
RECURSIVE BuildReverse(_, _, _)
BuildReverse(es, i, rev) ==
    IF i > Len(es)
    THEN [raised |-> FALSE, rev |-> rev]
    ELSE IF es[i].cTraderId = None
         THEN [raised |-> TRUE, rev |-> rev]
         ELSE BuildReverse(es, i + 1,
                           SetReverse(rev, es[i].cTraderId, es[i].symbol))

\* an except branch that empties the forward mapping only
LoadFailedPartly(m, rev) ==
    [m EXCEPT !.symbol_mapping = <<>>, !.reverse_symbol_mapping = rev]

\* load_symbol_mapping, the except branch (lines 39-42); rev is what the
\* loop had stored before the raise
LoadFailed(m, rev) ==
    [m EXCEPT !.symbol_mapping = <<>>, !.reverse_symbol_mapping = <<>>]

\* load_symbol_mapping (lines 20-42) on mapper m with the resource cfg
load_symbol_mapping(m, cfg) ==
    IF cfg.kind # "json"
    THEN LoadFailed(m, m.reverse_symbol_mapping)
    ELSE LET r == BuildReverse(cfg.entries, 1, m.reverse_symbol_mapping) IN
         IF r.raised
         THEN LoadFailed(m, r.rev)
         ELSE [m EXCEPT !.symbol_mapping = cfg.entries,
                        !.reverse_symbol_mapping = r.rev]

\* CTraderDataMapper() (lines 15-18): __init__ returns once the load is over
CTraderDataMapper(cfg) ==
    [load_symbol_mapping(NewMapper, cfg) EXCEPT !.outcome = "returned"]

\* get_symbol_mapping (line 46) on mapper m: the vendor id of the symbol's
\* entry, None when symbol_mapping has no such key
symbol_id(m, sym) ==
    IF \E i \in 1..Len(m.symbol_mapping) : m.symbol_mapping[i].symbol = sym
    THEN LET i == CHOOSE j \in 1..Len(m.symbol_mapping) :
                      m.symbol_mapping[j].symbol = sym
         IN  m.symbol_mapping[i].cTraderId
    ELSE None

\* self.reverse_symbol_mapping.get(id, {}).get('mt5Symbol') (lines 232-233)
reverse_symbol(m, id) ==
    IF id \in DOMAIN m.reverse_symbol_mapping
    THEN m.reverse_symbol_mapping[id]
    ELSE "none"

\* get_all_symbols (lines 48-50)
get_all_symbols(m) ==
    [i \in 1..Len(m.symbol_mapping) |-> m.symbol_mapping[i].symbol]

\* -------------------------------------------- CTraderConnectionWrapper
\* disconnect(): "if self.client and self.is_connected" awaits the vendor's
\* client.disconnect(); only then does the coroutine suspend
disconnect_suspends(s) == s.client /\ s.is_connected

\* disconnect() once the vendor call (if any) is over: ok = it did not raise.
\* A raise skips "self.is_connected = False" and is swallowed by the except.
disconnect_finish(s, ok) == IF ok THEN [s EXCEPT !.is_connected = FALSE] ELSE s

\* connect() in mock mode (not HAS_CTRADER_API): no vendor call, no client
connect_mock(s) == [s EXCEPT !.is_connected = TRUE]

\* connect() with the SDK up to its first await: the Client is constructed
connect_begin(s) == [s EXCEPT !.client = TRUE]

\* connect() after client.connect() and client.send(auth_req): the two awaits
\* touch no pool or session state between them and are one vendor handshake.
\* ok: is_connected and connection_count are set; not ok: the except branch.
connect_finish(s, ok) ==
    IF ok
    THEN [s EXCEPT !.is_connected = TRUE, !.connection_count = @ + 1]
    ELSE [s EXCEPT !.error_count = @ + 1, !.is_connected = FALSE]

\* ------------------------------------------ CTraderConnectionPool, segments
\* Each segment takes the store S and the caller's frame f and gives the
\* store and frame at the next suspension point or at the end of
\* get_connection (f.pc = "ret": it returns f.conn; "exc": it raises f.error).

\* get_connection, "return conn" / a raise leaving it
Return(S, f, id) == [S |-> S, f |-> [f EXCEPT !.pc = "ret", !.conn = id]]
Raise(S, f, e) ==
    [S |-> S, f |-> [f EXCEPT !.pc = "exc", !.error = e, !.conn = NoConn]]

\* get_connection, the credential-less branch (lines 165-168)
CreateMock(S, f, t) ==
    LET id == Len(S.sessions) + 1
        s == [NewSession(f.key, t) EXCEPT !.is_connected = TRUE]
    IN  Return([S EXCEPT !.sessions = Append(@, s),
                         !.connections = Put(@, f.key, id)], f, id)

\* a store that also refreshes last_used of the session it stores
StoreCreatedTouched(S, f, id) ==
    Return([S EXCEPT !.connections = Put(@, f.key, id),
                     !.sessions[id] = update_last_used(@, now),
                     !.stats.connections_created = @ + 1], f, id)

\* get_connection, lines 163-164 after a connect that returned
StoreCreated(S, f, id) ==
    Return([S EXCEPT !.connections = Put(@, f.key, id),
                     !.stats.connections_created = @ + 1], f, id)

\* get_connection, the branch with credentials (lines 161-164) up to the
\* suspension inside connect
CreateWithCredentials(S, f, t) ==
    LET id == Len(S.sessions) + 1
        s == NewSession(f.key, t)
    IN  IF ~HAS_CTRADER_API
        THEN StoreCreated([S EXCEPT !.sessions = Append(@, connect_mock(s))],
                          f, id)
        ELSE [S |-> [S EXCEPT !.sessions = Append(@, connect_begin(s))],
              f |-> [f EXCEPT !.pc = "connecting", !.conn = id]]

\* get_connection, "Create new connection" (lines 158-170)
Create(S, f, t) ==
    IF f.creds THEN CreateWithCredentials(S, f, t) ELSE CreateMock(S, f, t)

\* _remove_oldest_idle_connection, the scan (lines 177-183): the first key
\* in iteration order whose last_used is strictly below every earlier
\* candidate, starting from oldest_time = datetime.now()
RECURSIVE ScanOldest(_, _, _, _, _)
ScanOldest(conns, sess, i, oldest_key, oldest_time) ==
    IF i > Len(conns)
    THEN oldest_key
    ELSE IF sess[conns[i].id].last_used < oldest_time
         THEN ScanOldest(conns, sess, i + 1, conns[i].key,
                         sess[conns[i].id].last_used)
         ELSE ScanOldest(conns, sess, i + 1, oldest_key, oldest_time)

OldestKey(conns, sess, t) == ScanOldest(conns, sess, 1, NoKey, t)

\* _remove_oldest_idle_connection, "del self.connections[oldest_key]"
\* (line 188) and the rest of get_connection; the del raises KeyError when
\* the key left the map while the caller was suspended
DelOldest(S, f, t) ==
    IF HasKey(S.connections, f.oldest_key)
    THEN Create([S EXCEPT !.connections = Del(@, f.oldest_key)],
                [f EXCEPT !.evicted = ConnOf(S.connections, f.oldest_key)], t)
    ELSE Raise(S, f, "KeyError")

\* _remove_oldest_idle_connection (lines 172-189) and what follows it
remove_oldest_idle_connection(S, f, t) ==
    LET k == OldestKey(S.connections, S.sessions, t) IN
    IF S.connections = <<>> \/ k = NoKey
    THEN Create(S, f, t)
    ELSE LET id == ConnOf(S.connections, k)
             g == [f EXCEPT !.oldest_key = k]
         IN  IF disconnect_suspends(S.sessions[id])
             THEN [S |-> S, f |-> [g EXCEPT !.pc = "evict_wait", !.conn = id]]
             ELSE DelOldest(
                    [S EXCEPT !.sessions[id] = disconnect_finish(@, TRUE)],
                    g, t)

\* get_connection, "Check connection limit" (lines 153-156)
CheckLimit(S, f, t) ==
    IF Len(S.connections) >= max_connections
    THEN remove_oldest_idle_connection(S, f, t)
    ELSE Create(S, f, t)

\* a reuse that forgets conn.update_last_used()
ReuseWithoutTouch(S, f, t) ==
    LET id == ConnOf(S.connections, f.key) IN
    Return([S EXCEPT !.stats.connections_reused = @ + 1],
           [f EXCEPT !.reused = TRUE], id)

\* get_connection, reuse of a connected entry (lines 145-148)
Reuse(S, f, t) ==
    LET id == ConnOf(S.connections, f.key) IN
    Return([S EXCEPT !.sessions[id] = update_last_used(@, t),
                     !.stats.connections_reused = @ + 1],
           [f EXCEPT !.reused = TRUE], id)

\* a stale entry that is connected again in place instead of replaced
ReconnectStale(S, f, t) ==
    LET id == ConnOf(S.connections, f.key) IN
    Return([S EXCEPT !.sessions[id].is_connected = TRUE],
           [f EXCEPT !.stale = id], id)

\* get_connection, "Remove stale connection" (lines 149-151)
RemoveStale(S, f, t) ==
    CheckLimit([S EXCEPT !.connections = Del(@, f.key)],
               [f EXCEPT !.stale = ConnOf(S.connections, f.key)], t)

\* get_connection from its first line to its first suspension or its end
get_connection(S, f, t) ==
    IF HasKey(S.connections, f.key)
    THEN IF S.sessions[ConnOf(S.connections, f.key)].is_connected
         THEN Reuse(S, f, t)
         ELSE RemoveStale(S, f, t)
    ELSE CheckLimit(S, f, t)

\* get_connection resumed after the vendor's client.disconnect() of the
\* session it is evicting (f.conn) returned (ok) or raised (not ok)
EvictResumed(S, f, t, ok) ==
    DelOldest([S EXCEPT !.sessions[f.conn] = disconnect_finish(@, ok)],
              [f EXCEPT !.conn = NoConn], t)

\* a failed session stored in the map and counted before the raise
ConnectStoredThenRaised(S, f, ok) ==
    LET T == [S EXCEPT !.sessions[f.conn] = connect_finish(@, ok)] IN
    IF ok
    THEN StoreCreated(T, f, f.conn)
    ELSE Raise(StoreCreated(T, f, f.conn).S, f, "ConnectError")

\* get_connection resumed after the vendor handshake of connect
ConnectResumed(S, f, ok) ==
    LET T == [S EXCEPT !.sessions[f.conn] = connect_finish(@, ok)] IN
    IF ok THEN StoreCreated(T, f, f.conn) ELSE Raise(T, f, "ConnectError")

\* ------------------------------------------------- pool operations, ends
\* a direct get_connection call ends: the caller gets the session or the
\* exception
EndGetConnection(S, f) ==
    [S |-> S,
     f |-> [f EXCEPT !.pc = "idle",
                     !.outcome = IF f.pc = "ret" THEN "returned" ELSE "raised"]]

\* execute_trade, the except branch (lines 359-365)
TradeFailed(S, f, e) ==
    [S |-> [S EXCEPT !.stats.errors = @ + 1],
     f |-> [f EXCEPT !.pc = "idle", !.outcome = "returned",
                     !.success = FALSE, !.error = e]]

\* execute_trade, the mock branch (lines 320-328)
TradeMocked(S, f) ==
    [S |-> [S EXCEPT !.stats.trades_executed = @ + 1],
     f |-> [f EXCEPT !.pc = "idle", !.outcome = "returned",
                     !.success = TRUE, !.error = "none"]]

\* a trade counted as executed before the failure that ends the call
TradeCountedThenFailed(S, f) ==
    TradeFailed([S EXCEPT !.stats.trades_executed = @ + 1], f,
                "AttributeError")

\* execute_trade with the SDK (lines 330-335): map_order_request raises
\* ValueError for an unmapped symbol; then line 335 reads
\* conn.ctid_account_id, an attribute CTraderConnectionWrapper.__init__
\* (lines 33-44) does not define and nothing in the repository assigns, so
\* the read raises AttributeError and lines 336-358 are not reached
TradeWithApi(S, f) ==
    IF ~get_symbol_mapping(f.symbol)
    THEN TradeFailed(S, f, "ValueError")
    ELSE TradeFailed(S, f, "AttributeError")

\* execute_trade with get_connection outside its try block
EndExecuteTradeUnguarded(S, f) ==
    IF f.pc = "exc"
    THEN EndGetConnection(S, f)
    ELSE IF ~HAS_CTRADER_API THEN TradeMocked(S, f) ELSE TradeWithApi(S, f)

\* execute_trade after "conn = await self.get_connection(...)"
EndExecuteTrade(S, f) ==
    IF f.pc = "exc"
    THEN TradeFailed(S, f, f.error)
    ELSE IF ~HAS_CTRADER_API THEN TradeMocked(S, f) ELSE TradeWithApi(S, f)

\* ------------------------------------------- query and trading operations
\* freshness windows, in clock units (seconds): is_cache_valid(1) of
\* get_positions / get_orders, is_cache_valid(5) of get_account_info, and the
\* price cache test of get_price
positions_max_age == 1
account_info_max_age == 5
price_max_age == 1

\* position ids a caller may name
MaxPositions == 1
Positions == 1..MaxPositions

\* the account of a connection key (one environment per account)
account_id(k) == k

\* a cache that is still valid at the very age max_age_seconds
is_cache_valid_inclusive(s, max_age_seconds, t) ==
    IF s.cache_timestamp = NoTime
    THEN FALSE
    ELSE t - s.cache_timestamp <= max_age_seconds

\* CTraderConnectionWrapper.is_cache_valid(max_age_seconds) at clock reading t
is_cache_valid(s, max_age_seconds, t) ==
    IF s.cache_timestamp = NoTime
    THEN FALSE
    ELSE t - s.cache_timestamp < max_age_seconds

\* the operation returns res to its caller
Done(S, f, res) ==
    [S |-> S,
     f |-> [f EXCEPT !.pc = "idle", !.outcome = "returned", !.result = res]]

\* what an operation returns from its except branch
FalsyResult(op) ==
    CASE op \in {"get_account_info", "get_price"} -> "absent"
      [] op \in {"get_positions", "get_orders"} -> "empty"
      [] OTHER -> "false"

\* an except branch that forgets self.stats['errors'] += 1
QueryFailedUncounted(S, f, e) ==
    Done(S, [f EXCEPT !.error = e], FalsyResult(f.op))

\* the except branch of get_account_info, get_positions, get_orders,
\* modify_position and close_position: errors += 1, the falsy result
QueryFailed(S, f, e) ==
    Done([S EXCEPT !.stats.errors = @ + 1], [f EXCEPT !.error = e],
         FalsyResult(f.op))

\* the except branch of subscribe_to_symbol (lines 461-463) and of get_price
\* (lines 516-518): the falsy result, and no counter is touched
Swallowed(S, f, e) ==
    Done(S, [f EXCEPT !.error = e], FalsyResult(f.op))

\* "await conn.client.send(req)" on session id, which has a Client: the
\* caller suspends. On a session without one (client is None) the
\* expression raises AttributeError instead, which the callers of Send test.
Send(S, f, id) ==
    [S |-> S, f |-> [f EXCEPT !.pc = "sending", !.conn = id, !.sent = @ + 1]]

\* get_account_info after get_connection (lines 225-254)
GetAccountInfo(S, f, t) ==
    IF f.pc = "exc" THEN QueryFailed(S, f, f.error)
    ELSE IF ~HAS_CTRADER_API THEN Done(S, f, "data")
    ELSE LET s == S.sessions[f.conn] IN
         IF s.account_info_cache /\ is_cache_valid(s, account_info_max_age, t)
         THEN Done(S, f, "cached")
         ELSE IF ~s.client THEN QueryFailed(S, f, "AttributeError")
         ELSE Send(S, f, f.conn)

\* get_account_info resumed after client.send (line 244): a vendor failure
\* goes to the except branch; after a reply, line 247 reads the name
\* account_info, which nothing binds, and raises NameError
GetAccountInfoResumed(S, f, ok) ==
    IF ok
    THEN QueryFailed(S, f, "NameError")
    ELSE QueryFailed(S, [f EXCEPT !.failed = TRUE], "VendorError")

\* get_positions after get_connection (lines 261-283): with the SDK, an
\* empty cache or a stale one leads to line 271, which reads
\* conn.ctid_account_id and raises AttributeError before anything is sent
GetPositions(S, f, t) ==
    IF f.pc = "exc" THEN QueryFailed(S, f, f.error)
    ELSE IF ~HAS_CTRADER_API
    THEN Done(S, f, IF \E m \in S.mock_positions : m.account = account_id(f.key)
                    THEN "data" ELSE "empty")
    ELSE LET s == S.sessions[f.conn] IN
         IF s.positions_cache # {} /\ is_cache_valid(s, positions_max_age, t)
         THEN Done(S, f, "cached")
         ELSE QueryFailed(S, f, "AttributeError")

\* get_orders after get_connection (lines 290-311), line 299 as line 271
GetOrders(S, f, t) ==
    IF f.pc = "exc" THEN QueryFailed(S, f, f.error)
    ELSE IF ~HAS_CTRADER_API THEN Done(S, f, "empty")
    ELSE LET s == S.sessions[f.conn] IN
         IF s.orders_cache # {} /\ is_cache_valid(s, positions_max_age, t)
         THEN Done(S, f, "cached")
         ELSE QueryFailed(S, f, "AttributeError")

\* modify_position after get_connection (lines 373-392): line 378 reads
\* conn.ctid_account_id and raises before the amend request is sent
ModifyPosition(S, f) ==
    IF f.pc = "exc" THEN QueryFailed(S, f, f.error)
    ELSE IF ~HAS_CTRADER_API THEN Done(S, f, "true")
    ELSE QueryFailed(S, f, "AttributeError")

\* close_position after get_connection (lines 399-423): line 410 as line 378
ClosePosition(S, f) ==
    IF f.pc = "exc" THEN QueryFailed(S, f, f.error)
    ELSE IF ~HAS_CTRADER_API
    THEN Done([S EXCEPT !.mock_positions =
                  @ \ {[account |-> account_id(f.key), id |-> f.position]}],
              f, "true")
    ELSE QueryFailed(S, f, "AttributeError")

\* subscribe_to_symbol after its get_connection (lines 451-463): the
\* session it got is connected, and line 455 reads conn.ctid_account_id
Subscribe(S, f) ==
    IF f.pc = "exc" THEN Swallowed(S, f, f.error)
    ELSE Swallowed(S, f, "AttributeError")

\* get_price, "for conn in self.connections.values()" (lines 494-514) from
\* the entry after the f.seen entries taken so far, to the next suspension.
\* Asking the iterator for an entry after the dict changed its size raises
\* RuntimeError.
RECURSIVE PriceLoop(_, _)
PriceLoop(S, f) ==
    IF Len(S.connections) # f.size
    THEN Swallowed(S, f, "RuntimeError")
    ELSE IF f.seen >= Len(S.connections)
    THEN Done(S, f, "absent")
    ELSE LET id == S.connections[f.seen + 1].id
             g == [f EXCEPT !.seen = @ + 1]
         IN  IF ~S.sessions[id].is_connected THEN PriceLoop(S, g)
             ELSE IF ~S.sessions[id].client
             THEN Swallowed(S, g, "AttributeError")
             ELSE Send(S, g, id)

\* a quote stored without its time stamp being renewed
CachePriceStale(S, f, t) ==
    Done([S EXCEPT !.prices_cache[f.symbol] =
              IF @ = NoTime THEN t ELSE @], f, "quote")

\* get_price, "Cache price" and the return of the quote (lines 485-489 and
\* 508-513)
CachePrice(S, f, t) ==
    Done([S EXCEPT !.prices_cache[f.symbol] = t], f, "quote")

\* get_price(symbol) from its first line (lines 467-494)
GetPrice(S, f, t) ==
    IF S.prices_cache[f.symbol] # NoTime
         /\ t - S.prices_cache[f.symbol] < price_max_age
    THEN Done(S, f, "cached")
    ELSE IF ~get_symbol_mapping(f.symbol) THEN Done(S, f, "absent")
    ELSE IF ~HAS_CTRADER_API THEN CachePrice(S, f, t)
    ELSE PriceLoop(S, [f EXCEPT !.size = Len(S.connections)])

\* get_price resumed after client.send (line 498): the vendor failed, or
\* replied with (found) or without a spot for the symbol
GetPriceResumed(S, f, t, ok, found) ==
    IF ~ok THEN Swallowed(S, [f EXCEPT !.failed = TRUE], "VendorError")
    ELSE IF found THEN CachePrice(S, [f EXCEPT !.found = TRUE], t)
    ELSE PriceLoop(S, f)

\* an operation goes on after "conn = await self.get_connection(...)"
AfterGetConnection(S, f, t) ==
    CASE f.op = "get_account_info" -> GetAccountInfo(S, f, t)
      [] f.op = "get_positions" -> GetPositions(S, f, t)
      [] f.op = "get_orders" -> GetOrders(S, f, t)
      [] f.op = "modify_position" -> ModifyPosition(S, f)
      [] f.op = "close_position" -> ClosePosition(S, f)
      [] f.op = "subscribe_to_symbol" -> Subscribe(S, f)

\* the operation that called get_connection goes on when it returns or
\* raises; a suspended get_connection leaves the operation suspended
Continue(r) ==
    IF r.f.pc \notin {"ret", "exc"}
    THEN r
    ELSE IF r.f.op = "execute_trade"
         THEN EndExecuteTrade(r.S, r.f)
         ELSE IF r.f.op = "get_connection"
              THEN EndGetConnection(r.S, r.f)
              ELSE AfterGetConnection(r.S, r.f, now)

\* the step of caller p: the store it leaves, and its frame, which is kept
\* while the call is suspended and handed over as the last result when it ends
Apply(p, r) ==
    /\ connections' = r.S.connections
    /\ sessions' = r.S.sessions
    /\ stats' = r.S.stats
    /\ IF r.f.pc = "idle"
       THEN /\ calls' = [calls EXCEPT ![p] = IdleFrame]
            /\ last' = [r.f EXCEPT !.seq = last.seq + 1, !.creds = FALSE,
                                   !.oldest_key = NoKey]
       ELSE calls' = [calls EXCEPT ![p] = r.f] /\ UNCHANGED last

\* ------------------------------------------------- _periodic_cleanup
\* the task: where it is, the list and session of the cycle it is in, and
\* the exception its last finished cycle logged at line 216
NoTask ==
    [pc |-> "none", idle_connections |-> <<>>, conn |-> NoConn,
     error |-> "none"]
Sleeping ==
    [pc |-> "sleeping", idle_connections |-> <<>>, conn |-> NoConn,
     error |-> "none"]
Cancelled ==
    [pc |-> "cancelled", idle_connections |-> <<>>, conn |-> NoConn,
     error |-> "none"]

\* "except Exception as e" (lines 215-216): the error is logged and the
\* while loop goes on to its next asyncio.sleep
CycleFailed(e) == [Sleeping EXCEPT !.error = e]

\* "Find idle connections" (lines 197-204): the keys, in iteration order,
\* whose last_used is below now - idle_timeout
IdleKeys(conns, sess, t) ==
    LET idle == SelectSeq(conns,
                   LAMBDA e : sess[e.id].last_used < t - idle_timeout)
    IN  [i \in 1..Len(idle) |-> idle[i].key]

\* "Remove idle connections" (lines 207-211) from the head of the key list
\* ks to the next suspension.  connections[key] and the del raise KeyError
\* for a key that left the map; "except Exception" (line 215) logs it and
\* the while loop goes back to sleep, dropping the rest of the list.
RECURSIVE SweepLoop(_, _)
SweepLoop(S, ks) ==
    IF ks = <<>>
    THEN [S |-> S, task |-> Sleeping]
    ELSE IF ~HasKey(S.connections, Head(ks))
         THEN [S |-> S, task |-> CycleFailed("KeyError")]
         ELSE LET id == ConnOf(S.connections, Head(ks)) IN
              IF disconnect_suspends(S.sessions[id])
              THEN [S |-> S,
                    task |-> [pc |-> "disconnecting", idle_connections |-> ks,
                              conn |-> id, error |-> "none"]]
              ELSE SweepLoop(
                     [S EXCEPT !.sessions[id] = disconnect_finish(@, TRUE),
                               !.connections = Del(@, Head(ks))],
                     Tail(ks))

\* a sweep whose task ends with the cycle that failed
SweepResumedThenEnded(S, task, ok) ==
    LET T == [S EXCEPT !.sessions[task.conn] = disconnect_finish(@, ok)]
        k == Head(task.idle_connections)
    IN  IF HasKey(T.connections, k)
        THEN SweepLoop([T EXCEPT !.connections = Del(@, k)],
                       Tail(task.idle_connections))
        ELSE [S |-> T, task |-> [NoTask EXCEPT !.error = "KeyError"]]

\* the sweep resumed after the vendor's client.disconnect() (line 209), then
\* "del self.connections[key]" (line 210) and the rest of the loop
SweepResumed(S, task, ok) ==
    LET T == [S EXCEPT !.sessions[task.conn] = disconnect_finish(@, ok)]
        k == Head(task.idle_connections)
    IN  IF HasKey(T.connections, k)
        THEN SweepLoop([T EXCEPT !.connections = Del(@, k)],
                       Tail(task.idle_connections))
        ELSE [S |-> T, task |-> CycleFailed("KeyError")]

\* ------------------------------------------------------------ cleanup
\* cleanup(), "Close all connections" (lines 132-135) over the snapshot
\* list(self.connections.values()) from its head to the next suspension;
\* after the last session, self.connections.clear()
RECURSIVE CleanupLoop(_, _)
CleanupLoop(S, ids) ==
    IF ids = <<>>
    THEN [S |-> [S EXCEPT !.connections = <<>>],
          sd |-> [pc |-> "done", conns |-> <<>>]]
    ELSE IF disconnect_suspends(S.sessions[Head(ids)])
         THEN [S |-> S, sd |-> [pc |-> "disconnecting", conns |-> ids]]
         ELSE CleanupLoop(
                [S EXCEPT !.sessions[Head(ids)] = disconnect_finish(@, TRUE)],
                Tail(ids))

\* cleanup() resumed after the vendor's client.disconnect() (line 133)
CleanupResumed(S, sd, ok) ==
    CleanupLoop(
        [S EXCEPT !.sessions[Head(sd.conns)] = disconnect_finish(@, ok)],
        Tail(sd.conns))

\* cleanup(), lines 128-129: task.cancel().  The CancelledError is thrown at
\* the await the task is suspended in and is not an Exception, so neither
\* disconnect's handler nor line 215 catches it: the task ends (line 214)
\* without touching the pool again.
cancel(task) == IF task.pc = "none" THEN task ELSE Cancelled

ApplyStore(S) ==
    /\ connections' = S.connections
    /\ sessions' = S.sessions
    /\ stats' = S.stats

Init ==
    /\ HAS_CTRADER_API \in BOOLEAN
    /\ now = 0
    /\ connections = <<>>
    /\ sessions = <<>>
    /\ stats = [connections_created |-> 0, connections_reused |-> 0,
                trades_executed |-> 0, errors |-> 0]
    /\ calls = [p \in Callers |-> IdleFrame]
    /\ last = IdleFrame
    /\ ncalls = 0
    /\ cleanup_task = NoTask
    /\ shutdown = [pc |-> "none", conns |-> <<>>]
    /\ prices_cache = [sym \in Symbols |-> NoTime]
    /\ mock_positions = {}
    /\ config = StandardConfig
    /\ mapper = CTraderDataMapper(config)

\* datetime.now() is read again: the clock may have advanced
Tick ==
    /\ now < MaxTime
    /\ now' = now + 1
    /\ UNCHANGED <<fixed, connections, sessions, stats, foreground,
                   background>>

\* caller p calls get_connection(account_id, environment [, access_token,
\* ctid_account_id]) for key k, with (c) or without credentials
GetConnectionCalled(p, k, c) ==
    /\ calls[p].pc = "idle"
    /\ Apply(p, Continue(get_connection(Store,
            [IdleFrame EXCEPT !.op = "get_connection",
                              !.key = k, !.creds = c], now)))
    /\ ncalls' = ncalls + 1
    /\ UNCHANGED <<fixed, now, background>>

\* Callers and keys are interchangeable, so one representative of each
\* class of behaviours is explored: a call is started by the lowest idle
\* caller, for a key already used or for the lowest key not yet used.
NextCaller(p) == \A q \in Callers : q < p => calls[q].pc # "idle"

\* requests reach the pool until cleanup() has returned (the application's
\* lifespan ends with it); calls in flight then still run to their end
Serving == ncalls < MaxCalls /\ shutdown.pc # "done"

UsedKeys ==
    {sessions[i].key : i \in DOMAIN sessions}
        \cup {calls[q].key : q \in Callers} \cup {last.key}
        \cup {m.account : m \in mock_positions}

CallableKeys == {k \in Keys : \A j \in 1..(k - 1) : j \in UsedKeys}

CallGetConnection(p) ==
    /\ Serving
    /\ NextCaller(p)
    /\ \E k \in CallableKeys, c \in BOOLEAN : GetConnectionCalled(p, k, c)

\* execute_trade(account_id, environment, trade_data): line 318 calls
\* get_connection without credentials
CallExecuteTrade(p) ==
    /\ calls[p].pc = "idle"
    /\ Serving
    /\ NextCaller(p)
    /\ \E k \in CallableKeys, sym \in Symbols :
         Apply(p, Continue(get_connection(Store,
            [IdleFrame EXCEPT !.op = "execute_trade",
                              !.key = k, !.symbol = sym], now)))
    /\ ncalls' = ncalls + 1
    /\ UNCHANGED <<fixed, now, background>>

\* the vendor's client.disconnect() awaited by an eviction is over: it
\* returned (ok) or raised
EvictWaitOver(p, ok) ==
    /\ calls[p].pc = "evict_wait"
    /\ Apply(p, Continue(EvictResumed(Store, calls[p], now, ok)))
    /\ UNCHANGED <<fixed, now, ncalls, background>>

ResumeEvict(p) == \E ok \in BOOLEAN : EvictWaitOver(p, ok)

\* the vendor handshake awaited by connect is over: it succeeded (ok) or
\* raised
HandshakeOver(p, ok) ==
    /\ calls[p].pc = "connecting"
    /\ Apply(p, Continue(ConnectResumed(Store, calls[p], ok)))
    /\ UNCHANGED <<fixed, now, ncalls, background>>

ResumeConnect(p) == \E ok \in BOOLEAN : HandshakeOver(p, ok)

\* initialize(): the sweep task is created and sleeps (lines 119-122, 195).
\* The application awaits it before it serves requests; a pool used without
\* it never sweeps.  (A task created later behaves as one created at
\* startup that has not woken yet.)
Initialize ==
    /\ cleanup_task.pc = "none"
    /\ shutdown.pc = "none"
    /\ ncalls = 0
    /\ cleanup_task' = Sleeping
    /\ UNCHANGED <<fixed, now, connections, sessions, stats,
                   foreground, shutdown>>

\* _periodic_cleanup wakes from asyncio.sleep(60) and sweeps (lines 197-211)
SweepWake ==
    /\ cleanup_task.pc = "sleeping"
    /\ LET r == SweepLoop(Store, IdleKeys(connections, sessions, now))
       IN  ApplyStore(r.S) /\ cleanup_task' = r.task
    /\ UNCHANGED <<fixed, now, foreground, shutdown>>

\* the vendor's client.disconnect() awaited by the sweep is over
SweepResume ==
    /\ cleanup_task.pc = "disconnecting"
    /\ \E ok \in BOOLEAN :
         LET r == SweepResumed(Store, cleanup_task, ok)
         IN  ApplyStore(r.S) /\ cleanup_task' = r.task
    /\ UNCHANGED <<fixed, now, foreground, shutdown>>

\* cleanup() is called (the application shuts down): the sweep task is
\* cancelled and, with no await in between, the snapshot of line 132 is
\* taken and the loop runs to its first suspension
Cleanup ==
    /\ shutdown.pc = "none"
    /\ LET r == CleanupLoop(Store,
                   [i \in 1..Len(connections) |-> connections[i].id])
       IN  ApplyStore(r.S) /\ shutdown' = r.sd
    /\ cleanup_task' = cancel(cleanup_task)
    /\ UNCHANGED <<fixed, now, foreground>>

\* the vendor's client.disconnect() awaited by cleanup() is over
CleanupResume ==
    /\ shutdown.pc = "disconnecting"
    /\ \E ok \in BOOLEAN :
         LET r == CleanupResumed(Store, shutdown, ok)
         IN  ApplyStore(r.S) /\ shutdown' = r.sd
    /\ UNCHANGED <<fixed, now, foreground, cleanup_task>>

Next ==
    \/ Tick
    \/ Initialize
    \/ SweepWake
    \/ SweepResume
    \/ Cleanup
    \/ CleanupResume
    \/ \E p \in Callers : CallGetConnection(p)
    \/ \E p \in Callers : CallExecuteTrade(p)
    \/ \E p \in Callers : ResumeEvict(p)
    \/ \E p \in Callers : ResumeConnect(p)

Spec == Init /\ [][Next]_vars

\* get_stats dividing by connections_created itself
get_stats_unclamped ==
    [connectionsCreated |-> stats.connections_created,
     connectionsReused |-> stats.connections_reused,
     tradesExecuted |-> stats.trades_executed,
     errors |-> stats.errors,
     activeConnections |-> Len(connections),
     reuse_ratio |-> [num |-> stats.connections_reused,
                      den |-> stats.connections_created]]

\* get_stats() (lines 534-543); reuse_ratio is the quotient num / den
get_stats ==
    [connectionsCreated |-> stats.connections_created,
     connectionsReused |-> stats.connections_reused,
     tradesExecuted |-> stats.trades_executed,
     errors |-> stats.errors,
     activeConnections |-> Len(connections),
     reuse_ratio |-> [num |-> stats.connections_reused,
                      den |-> IF stats.connections_created > 1
                              THEN stats.connections_created ELSE 1]]

\* ---------------------------------- the pool serving queries and streaming
\* the step of caller p in an operation that may write the price cache or
\* the mock positions
ApplyData(p, r) ==
    /\ Apply(p, r)
    /\ prices_cache' = r.S.prices_cache
    /\ mock_positions' = r.S.mock_positions

\* caller p calls operation op for the account of key k (and position pos):
\* its first line is "conn = await self.get_connection(account_id,
\* environment)", without credentials
QueryCalled(p, op, k, pos) ==
    /\ calls[p].pc = "idle"
    /\ Serving
    /\ NextCaller(p)
    /\ ApplyData(p, Continue(get_connection(Store,
            [IdleFrame EXCEPT !.op = op, !.key = k, !.position = pos], now)))
    /\ ncalls' = ncalls + 1
    /\ UNCHANGED <<fixed, now, cleanup_task, shutdown>>

CallGetAccountInfo(p) ==
    \E k \in CallableKeys : QueryCalled(p, "get_account_info", k, None)

CallGetPositions(p) ==
    \E k \in CallableKeys : QueryCalled(p, "get_positions", k, None)

CallGetOrders(p) ==
    \E k \in CallableKeys : QueryCalled(p, "get_orders", k, None)

CallModifyPosition(p) ==
    \E k \in CallableKeys, pos \in Positions :
        QueryCalled(p, "modify_position", k, pos)

CallClosePosition(p) ==
    \E k \in CallableKeys, pos \in Positions :
        QueryCalled(p, "close_position", k, pos)

\* subscribe_to_symbol(symbol, account_id) (lines 436-463): the mapping is
\* looked up first; only with the SDK and an account does it call
\* get_connection(account_id)
CallSubscribeToSymbol(p) ==
    /\ calls[p].pc = "idle"
    /\ Serving
    /\ NextCaller(p)
    /\ \E sym \in Symbols, k \in CallableKeys \cup {NoKey} :
         LET f == [IdleFrame EXCEPT !.op = "subscribe_to_symbol",
                                    !.symbol = sym, !.key = k]
         IN  ApplyData(p,
                IF ~get_symbol_mapping(sym) THEN Done(Store, f, "false")
                ELSE IF ~HAS_CTRADER_API \/ k = NoKey
                THEN Done(Store, f, "true")
                ELSE Continue(get_connection(Store, f, now)))
    /\ ncalls' = ncalls + 1
    /\ UNCHANGED <<fixed, now, cleanup_task, shutdown>>

\* get_price(symbol) is called
CallGetPrice(p) ==
    /\ calls[p].pc = "idle"
    /\ Serving
    /\ NextCaller(p)
    /\ \E sym \in Symbols :
         ApplyData(p, GetPrice(Store,
            [IdleFrame EXCEPT !.op = "get_price", !.symbol = sym], now))
    /\ ncalls' = ncalls + 1
    /\ UNCHANGED <<fixed, now, cleanup_task, shutdown>>

\* the vendor's client.send awaited by get_account_info or get_price is
\* over: it raised (not ok) or replied, for get_price with (found) or
\* without a spot for the symbol asked
SendOver(p, ok, found) ==
    /\ calls[p].pc = "sending"
    /\ ApplyData(p,
         IF calls[p].op = "get_account_info"
         THEN GetAccountInfoResumed(Store, calls[p], ok)
         ELSE GetPriceResumed(Store, calls[p], now, ok, found))
    /\ UNCHANGED <<fixed, now, ncalls, cleanup_task, shutdown>>

ResumeSend(p) == \E ok, found \in BOOLEAN : SendOver(p, ok, found)

\* add_mock_position(account_id, position) (lines 624-628), the helper "for
\* testing without API": a test fills the store of one account before it
\* calls the pool
AddMockPosition ==
    /\ ~HAS_CTRADER_API
    /\ ncalls = 0
    /\ \E k \in CallableKeys, pos \in Positions :
         /\ \A m \in mock_positions : m.account = account_id(k)
         /\ [account |-> account_id(k), id |-> pos] \notin mock_positions
         /\ mock_positions' =
               mock_positions \cup {[account |-> account_id(k), id |-> pos]}
    /\ UNCHANGED <<fixed, now, connections, sessions, stats, calls,
                   last, ncalls, cleanup_task, shutdown, prices_cache>>

\* the pool serving get_connection and the account, position and order
\* operations, without sweep and shutdown
NextQuery ==
    \/ Tick
    \/ AddMockPosition
    \/ \E p \in Callers : CallGetConnection(p)
    \/ \E p \in Callers : CallGetAccountInfo(p)
    \/ \E p \in Callers : CallGetPositions(p)
    \/ \E p \in Callers : CallGetOrders(p)
    \/ \E p \in Callers : CallModifyPosition(p)
    \/ \E p \in Callers : CallClosePosition(p)
    \/ \E p \in Callers : ResumeEvict(p)
    \/ \E p \in Callers : ResumeConnect(p)
    \/ \E p \in Callers : ResumeSend(p)

SpecQuery == Init /\ [][NextQuery]_vars

\* the pool serving get_connection and the streaming operations, without
\* sweep and shutdown
NextPrice ==
    \/ Tick
    \/ \E p \in Callers : CallGetConnection(p)
    \/ \E p \in Callers : CallSubscribeToSymbol(p)
    \/ \E p \in Callers : CallGetPrice(p)
    \/ \E p \in Callers : ResumeEvict(p)
    \/ \E p \in Callers : ResumeConnect(p)
    \/ \E p \in Callers : ResumeSend(p)

SpecPrice == Init /\ [][NextPrice]_vars

\* ------------------------------------------------ HTTP handlers (FastAPI)
\* the value a pool query returned is truthy
Truthy(f) == f.outcome = "returned" /\ f.result \in {"data", "cached", "quote"}

\* The body of GET /account/{account_id} (lines 93-103) and of
\* GET /prices/{symbol} (lines 211-221) after the pool call with frame f
\* ended.  In the try block a truthy value is returned (status 200, for the
\* account through map_account_info, which does not raise) and a falsy one
\* raises HTTPException(404).  HTTPException is an Exception, so the
\* handler's own "except Exception" catches it, like anything the pool
\* call raised, and raises HTTPException(500) in its place.
HandlerStatus(f) ==
    LET in_try == IF f.outcome = "raised" THEN [raised |-> TRUE, status |-> 500]
                  ELSE IF Truthy(f) THEN [raised |-> FALSE, status |-> 200]
                  ELSE [raised |-> TRUE, status |-> 404]
    IN  IF in_try.raised THEN 500 ELSE in_try.status

\* GET /account/{account_id}: the status answered for the pool call f
get_account_info_handler(f) == HandlerStatus(f)

\* GET /prices/{symbol}: the status answered for the pool call f
get_price_handler(f) == HandlerStatus(f)

\* ------------------------------- CTraderConnectionWrapper used on its own
\* connect(access_token, ctid_account_id) on session f.conn, from its first
\* line to the vendor handshake (lines 48-64)
Connect(S, f) ==
    IF ~HAS_CTRADER_API
    THEN Done([S EXCEPT !.sessions[f.conn] = connect_mock(@)], f, "true")
    ELSE [S |-> [S EXCEPT !.sessions[f.conn] = connect_begin(@)],
          f |-> [f EXCEPT !.pc = "connecting"]]

\* connect() resumed after the vendor handshake: "return True" (line 77), or
\* the except branch, which ends with "raise" (lines 78-82)
ConnectReturned(S, f, ok) ==
    LET T == [S EXCEPT !.sessions[f.conn] = connect_finish(@, ok)] IN
    IF ok
    THEN Done(T, f, "true")
    ELSE [S |-> T,
          f |-> [f EXCEPT !.pc = "idle", !.outcome = "raised",
                          !.error = "ConnectError", !.failed = TRUE]]

\* disconnect() on session f.conn, from its first line (lines 86-91)
Disconnect(S, f) ==
    IF disconnect_suspends(S.sessions[f.conn])
    THEN [S |-> S, f |-> [f EXCEPT !.pc = "disconnecting"]]
    ELSE Done([S EXCEPT !.sessions[f.conn] = disconnect_finish(@, TRUE)],
              f, "none")

\* a disconnect() without its try / except
DisconnectUnguarded(S, f, ok) ==
    IF ok
    THEN Done([S EXCEPT !.sessions[f.conn] = disconnect_finish(@, TRUE)],
              f, "none")
    ELSE [S |-> S,
          f |-> [f EXCEPT !.pc = "idle", !.outcome = "raised",
                          !.error = "VendorError", !.failed = TRUE]]

\* disconnect() resumed after the vendor's client.disconnect() (line 88): a
\* raise is logged by the except branch (lines 92-93) and the call returns
DisconnectReturned(S, f, ok) ==
    Done([S EXCEPT !.sessions[f.conn] = disconnect_finish(@, ok)],
         [f EXCEPT !.failed = ~ok], "none")

\* CTraderConnectionWrapper(account_id, environment) is constructed
NewWrapper ==
    /\ Len(sessions) < NumKeys
    /\ sessions' = Append(sessions, NewSession(Len(sessions) + 1, now))
    /\ UNCHANGED <<fixed, now, connections, stats, foreground,
                   background>>

\* caller p calls method op of session i
WrapperCalled(p, op, i, r) ==
    /\ calls[p].pc = "idle"
    /\ ncalls < MaxCalls
    /\ NextCaller(p)
    /\ Apply(p, r)
    /\ ncalls' = ncalls + 1
    /\ UNCHANGED <<fixed, now, background>>

CallConnect(p) ==
    \E i \in DOMAIN sessions :
        WrapperCalled(p, "connect", i,
            Connect(Store, [IdleFrame EXCEPT !.op = "connect", !.conn = i,
                                             !.key = sessions[i].key]))

CallDisconnect(p) ==
    \E i \in DOMAIN sessions :
        WrapperCalled(p, "disconnect", i,
            Disconnect(Store, [IdleFrame EXCEPT !.op = "disconnect",
                                                !.conn = i,
                                                !.key = sessions[i].key]))

\* the vendor handshake awaited by a connect() call is over
ConnectOver(p, ok) ==
    /\ calls[p].pc = "connecting"
    /\ Apply(p, ConnectReturned(Store, calls[p], ok))
    /\ UNCHANGED <<fixed, now, ncalls, background>>

ResumeConnectCall(p) == \E ok \in BOOLEAN : ConnectOver(p, ok)

\* the vendor's client.disconnect() awaited by a disconnect() call is over
DisconnectOver(p, ok) ==
    /\ calls[p].pc = "disconnecting"
    /\ Apply(p, DisconnectReturned(Store, calls[p], ok))
    /\ UNCHANGED <<fixed, now, ncalls, background>>

ResumeDisconnectCall(p) == \E ok \in BOOLEAN : DisconnectOver(p, ok)

\* sessions constructed, connected and disconnected by concurrent callers
NextSession ==
    \/ Tick
    \/ NewWrapper
    \/ \E p \in Callers : CallConnect(p)
    \/ \E p \in Callers : CallDisconnect(p)
    \/ \E p \in Callers : ResumeConnectCall(p)
    \/ \E p \in Callers : ResumeDisconnectCall(p)

SpecSession == Init /\ [][NextSession]_vars

\* ------------------------------------------- CTraderDataMapper on its own
\* before the mapper is constructed: any symbols.json may be on disk
InitMapper ==
    /\ HAS_CTRADER_API \in BOOLEAN
    /\ now = 0
    /\ connections = <<>>
    /\ sessions = <<>>
    /\ stats = [connections_created |-> 0, connections_reused |-> 0,
                trades_executed |-> 0, errors |-> 0]
    /\ calls = [p \in Callers |-> IdleFrame]
    /\ last = IdleFrame
    /\ ncalls = 0
    /\ cleanup_task = NoTask
    /\ shutdown = [pc |-> "none", conns |-> <<>>]
    /\ prices_cache = [sym \in Symbols |-> NoTime]
    /\ mock_positions = {}
    /\ config \in Configs
    /\ mapper = NewMapper

\* CTraderDataMapper() is constructed (lines 15-18)
MapperConstructed ==
    /\ mapper.outcome = "none"
    /\ mapper' = CTraderDataMapper(config)
    /\ UNCHANGED <<HAS_CTRADER_API, config, now, connections, sessions,
                   stats, foreground, background>>

NextMapper == MapperConstructed

SpecMapper == InitMapper /\ [][NextMapper]_vars

\* ------------------------------------------------ the example scenario
\* One caller makes the calls get_connection(A), get_connection(B),
\* get_connection(A), get_connection(C) one after the other, each with or
\* without credentials; the clock advances between one call and the next,
\* and no vendor call fails.  The pool may have been initialized first; the
\* sweep, asleep for 60 seconds, does not wake during the scenario.
Script == <<1, 2, 1, 3>>

ScriptedCall ==
    /\ ncalls < Len(Script)
    /\ now = ncalls
    /\ \E c \in BOOLEAN : GetConnectionCalled(1, Script[ncalls + 1], c)

ClockAdvances ==
    /\ now < ncalls
    /\ now' = now + 1
    /\ UNCHANGED <<fixed, connections, sessions, stats, foreground,
                   background>>

NextExample ==
    \/ Initialize
    \/ ClockAdvances
    \/ ScriptedCall
    \/ EvictWaitOver(1, TRUE)
    \/ HandshakeOver(1, TRUE)

SpecExample == Init /\ [][NextExample]_vars

\* =================================================================== claims
\* ------------------------------------------------- what a step was about
\* the step starts a pool call for key k (it may also end it)
CallStarted(k) ==
    /\ ncalls' = ncalls + 1
    /\ IF last'.seq # last.seq
       THEN last'.key = k
       ELSE \E p \in Callers :
               calls[p].pc = "idle" /\ calls'[p].pc # "idle" /\ calls'[p].key = k

\* the step ends a pool call (its frame is last')
CallEnded == last'.seq # last.seq

\* the frame, after the step, of the call that the step started
StartedFrame ==
    IF last'.seq # last.seq
    THEN last'
    ELSE LET p == CHOOSE q \in Callers :
                     calls[q].pc = "idle" /\ calls'[q].pc # "idle"
         IN  calls'[p]

\* session i is the one a suspended connect is working on
Connecting(i) ==
    \E p \in Callers : calls[p].pc = "connecting" /\ calls[p].conn = i

\* C1: in every reachable state the session map holds at most
\* max_connections sessions.
C1_PoolSizeBounded == Len(connections) <= max_connections

\* C2: at no time do two distinct connected Session instances exist for the
\* same key.
C2_NoDuplicateLive ==
    \A i, j \in DOMAIN sessions :
        (i # j /\ sessions[i].key = sessions[j].key)
            => ~(sessions[i].is_connected /\ sessions[j].is_connected)

\* C3: at most one connect attempt per key is outstanding at any time.
C3_OneConnectPerKey ==
    \A p, q \in Callers :
        (p # q /\ calls[p].pc = "connecting" /\ calls[q].pc = "connecting")
            => calls[p].key # calls[q].key

\* session id has the oldest last_used among the sessions in the map
IsOldest(id) ==
    \A j \in IdsOf(connections) :
        sessions[id].last_used <= sessions[j].last_used

\* C4: a get_connection call for a key not in a full map removes exactly one
\* session, one whose last_used is the oldest in the map, for every
\* assignment of last_used (a call suspended in the vendor's disconnect of
\* an oldest session is still on its way to removing it).
C4_EvictsOldest ==
    [][\A k \in Keys :
        (/\ CallStarted(k)
         /\ Len(connections) = max_connections
         /\ ~HasKey(connections, k))
        => \/ /\ StartedFrame.pc = "evict_wait"
              /\ StartedFrame.conn \in IdsOf(connections)
              /\ IsOldest(StartedFrame.conn)
           \/ /\ StartedFrame.evicted \in IdsOf(connections)
              /\ IsOldest(StartedFrame.evicted)
              /\ IdsOf(connections') \cap IdsOf(connections)
                    = IdsOf(connections) \ {StartedFrame.evicted}]_vars

\* C5: with max_connections = 2, after get_connection(A), get_connection(B),
\* get_connection(A), get_connection(C) the map holds exactly A and C, B's
\* session is disconnected, and get_stats reports connectionsCreated = 3,
\* connectionsReused = 1, activeConnections = 2.
C5_Example ==
    (max_connections = 2 /\ ncalls = Len(Script) /\ last.seq = Len(Script))
        => /\ KeysOf(connections) = {1, 3}
           /\ \A i \in DOMAIN sessions :
                 sessions[i].key = 2 => ~sessions[i].is_connected
           /\ get_stats.connectionsCreated = 3
           /\ get_stats.connectionsReused = 1
           /\ get_stats.activeConnections = 2

\* C6: every step that stores a newly created session in the map increments
\* connections_created by exactly 1, with or without credentials.
C6_CreatedCounted ==
    [][(\E id \in IdsOf(connections') : id \notin IdsOf(connections))
        => stats'.connections_created = stats.connections_created + 1]_vars

\* C7: a get_connection call whose key maps to a connected session returns
\* that session, sets its last_used to the current time, adds exactly 1 to
\* connections_reused and changes nothing else of the map, of the sessions
\* or of connections_created; nothing is evicted.
C7_ReuseFrame ==
    [][\A k \in Keys :
        (/\ CallStarted(k)
         /\ HasKey(connections, k)
         /\ sessions[ConnOf(connections, k)].is_connected)
        => LET id == ConnOf(connections, k) IN
           /\ StartedFrame.conn = id
           /\ StartedFrame.reused
           /\ StartedFrame.op = "get_connection"
                => (CallEnded /\ last'.outcome = "returned")
           /\ connections' = connections
           /\ sessions' = [sessions EXCEPT ![id].last_used = now]
           /\ stats'.connections_reused = stats.connections_reused + 1
           /\ stats'.connections_created = stats.connections_created
           /\ StartedFrame.evicted = NoConn
           /\ StartedFrame.stale = NoConn]_vars

\* C7 witness: a reuse at capacity that refreshed last_used
C7_Witness ==
    /\ last.reused
    /\ last.op = "get_connection"
    /\ Len(connections) = max_connections
    /\ last.conn \in IdsOf(connections)
    /\ sessions[last.conn].last_used = MaxTime
    /\ \E j \in IdsOf(connections) : sessions[j].last_used < MaxTime

\* C8: a session that is neither connected nor being connected never
\* becomes connected (or connecting) again, a connected session is never
\* the subject of a connect, and a get_connection call that finds a
\* disconnected entry for its key removes it and, when it returns, returns a
\* different instance that this call created.
C8_Lifecycle ==
    [][/\ \A i \in DOMAIN sessions :
            /\ (~sessions[i].is_connected /\ ~Connecting(i))
                    => (~sessions'[i].is_connected /\ ~Connecting(i)')
            /\ sessions[i].is_connected => ~Connecting(i)'
       /\ \A k \in Keys :
            (/\ CallStarted(k)
             /\ HasKey(connections, k)
             /\ ~sessions[ConnOf(connections, k)].is_connected)
            => /\ StartedFrame.stale = ConnOf(connections, k)
               /\ ConnOf(connections, k) \notin IdsOf(connections')
               /\ ~sessions'[ConnOf(connections, k)].is_connected
       /\ (CallEnded /\ last'.stale # NoConn /\ last'.conn # NoConn)
            => /\ last'.conn # last'.stale
               /\ sessions'[last'.conn].is_connected
               /\ \/ last'.conn \notin DOMAIN sessions
                  \/ \E p \in Callers :
                        /\ calls[p].pc = "connecting"
                        /\ calls[p].conn = last'.conn
                        /\ calls'[p].pc = "idle"]_vars

\* C8 witness: a call found its key's entry disconnected, and returned a
\* fresh connected instance while the stale one stays disconnected
C8_Witness ==
    /\ last.stale # NoConn
    /\ last.conn # NoConn
    /\ last.conn # last.stale
    /\ ~sessions[last.stale].is_connected
    /\ sessions[last.conn].is_connected
    /\ sessions[last.conn].key = sessions[last.stale].key

C10_OneCounter ==
    [][/\ (CallEnded /\ last'.op = "execute_trade")
            => IF last'.success
               THEN /\ stats'.trades_executed = stats.trades_executed + 1
                    /\ stats'.errors = stats.errors
               ELSE /\ stats'.errors = stats.errors + 1
                    /\ stats'.trades_executed = stats.trades_executed
       /\ (\E p \in Callers :
              /\ calls'[p] # calls[p]
              /\ calls'[p].op = "execute_trade")
            => /\ stats'.trades_executed = stats.trades_executed
               /\ stats'.errors = stats.errors]_vars

\* C10 witness: with the SDK, an execute_trade call that evicted a session
\* on its way ended with success = false, counted once in errors and not in
\* trades_executed
C10_Witness ==
    /\ last.op = "execute_trade"
    /\ ~last.success
    /\ stats.errors = 1
    /\ stats.trades_executed = 0
    /\ HAS_CTRADER_API
    /\ last.evicted # NoConn

\* C11: an execute_trade call for a symbol that the symbol mapping does not
\* hold ends with success = false and the unknown-symbol error, and leaves
\* trades_executed unchanged, with the vendor SDK present or absent.
C11_UnknownSymbolFails ==
    [][(/\ CallEnded
        /\ last'.op = "execute_trade"
        /\ ~get_symbol_mapping(last'.symbol))
        => /\ ~last'.success
           /\ last'.error = "ValueError"
           /\ stats'.trades_executed = stats.trades_executed]_vars

\* the queries that keep a per-session cache
CachedQueries == {"get_account_info", "get_positions", "get_orders"}

\* the cache fields of every session are what they were
CachesUnchanged ==
    \A i \in DOMAIN sessions :
        /\ sessions'[i].positions_cache = sessions[i].positions_cache
        /\ sessions'[i].orders_cache = sessions[i].orders_cache
        /\ sessions'[i].account_info_cache = sessions[i].account_info_cache
        /\ sessions'[i].cache_timestamp = sessions[i].cache_timestamp

\* no session's cache is ever written: lines 247-248, 275-276 and 303-304
\* come after a statement that always raises
SessionCachesNeverFilled ==
    \A i \in DOMAIN sessions :
        /\ sessions[i].positions_cache = {}
        /\ sessions[i].orders_cache = {}
        /\ ~sessions[i].account_info_cache
        /\ sessions[i].cache_timestamp = NoTime

\* C12: a modify_position call returns false and adds exactly 1 to errors
\* when its vendor call (or its get_connection) failed, and returns true and
\* leaves errors unchanged when nothing failed; it never raises.
C12_ModifyPosition ==
    [][(CallEnded /\ last'.op = "modify_position")
        => /\ last'.outcome = "returned"
           /\ IF last'.failed \/ last'.conn = NoConn
              THEN /\ last'.result = "false"
                   /\ stats'.errors = stats.errors + 1
              ELSE /\ last'.result = "true"
                   /\ stats'.errors = stats.errors]_vars

\* C14: with the SDK, a get_positions, get_orders or get_account_info call
\* that obtained its session either returns the cached value without a
\* vendor call, or issues a vendor call and, when the vendor replied,
\* returns the reply and refreshes the cache and its time stamp.
C14_CacheFreshness ==
    [][(/\ CallEnded
        /\ last'.op \in CachedQueries
        /\ HAS_CTRADER_API
        /\ last'.conn # NoConn)
        => \/ /\ last'.result = "cached"
              /\ last'.sent = 0
           \/ /\ last'.sent > 0
              /\ ~last'.failed
                    => /\ last'.result = "data"
                       /\ sessions'[last'.conn].cache_timestamp = now
           ]_vars

\* C16: a get_positions, get_orders or get_account_info call in which the
\* vendor query (or any other step) raised returns the empty list or the
\* absent value, adds exactly 1 to errors, leaves every session's caches and
\* cache time stamp unchanged, and raises nothing.
C16_QueryFailureContained ==
    [][(/\ CallEnded
        /\ last'.op \in CachedQueries
        /\ (last'.failed \/ last'.error # "none"))
        => /\ last'.outcome = "returned"
           /\ last'.result = (IF last'.op = "get_account_info"
                              THEN "absent" ELSE "empty")
           /\ stats'.errors = stats.errors + 1
           /\ CachesUnchanged]_vars

\* C16 witness: the vendor query of get_account_info failed, the call
\* returned the absent value and is the one error counted
C16_Witness ==
    /\ last.op = "get_account_info"
    /\ last.failed
    /\ last.sent = 1
    /\ last.result = "absent"
    /\ last.outcome = "returned"
    /\ stats.errors = 1

\* C17: every pool operation in which a vendor call failed returns a falsy,
\* empty or error-tagged result and adds 1 to errors.
C17_FailuresCounted ==
    [][(CallEnded /\ last'.failed)
        => /\ last'.outcome = "returned"
           /\ last'.result \in {"absent", "empty", "false"}
           /\ stats'.errors = stats.errors + 1]_vars

\* the step starts a get_price call for symbol sym
PriceCallStarted(sym) ==
    /\ ncalls' = ncalls + 1
    /\ StartedFrame.op = "get_price"
    /\ StartedFrame.symbol = sym

\* the quote cached for sym is less than price_max_age old
PriceFresh(sym) ==
    prices_cache[sym] # NoTime /\ now - prices_cache[sym] < price_max_age

C19_ReuseRatio ==
    LET r == get_stats.reuse_ratio
        created == stats.connections_created
        reused == stats.connections_reused
    IN  /\ r.den >= 1
        /\ r.num * (IF created >= 1 THEN created ELSE 1) = reused * r.den
        /\ (created = 0 /\ reused = 0) => r.num = 0

\* C19 witness: two sessions created and counted, one reuse: the ratio 1/2
C19_Witness ==
    /\ stats.connections_created = 2
    /\ stats.connections_reused = 1
    /\ get_stats.reuse_ratio = [num |-> 1, den |-> 2]

\* the step is one of the sweep task
SweepStep ==
    /\ cleanup_task.pc \in {"sleeping", "disconnecting"}
    /\ UNCHANGED <<calls, last, ncalls, now, shutdown>>

\* the keys the sweep cycle has still to remove before the step
SweepPending ==
    IF cleanup_task.pc = "sleeping"
    THEN IdleKeys(connections, sessions, now)
    ELSE cleanup_task.idle_connections

\* C20: when a sweep cycle ends, every session on the cycle's list of idle
\* keys that is still in the map, untouched, has been removed from the map,
\* and disconnected when that takes no vendor call, whatever get_connection
\* calls and evictions ran meanwhile.
C20_SweepRemovesIdle ==
    [][(SweepStep /\ cleanup_task'.pc = "sleeping")
        => \A i \in 1..Len(SweepPending) :
              LET k == SweepPending[i] IN
              (/\ HasKey(connections, k)
               /\ sessions[ConnOf(connections, k)].last_used
                      < now - idle_timeout)
              => /\ ConnOf(connections, k) \notin IdsOf(connections')
                 /\ ~sessions[ConnOf(connections, k)].client
                       => ~sessions'[ConnOf(connections, k)].is_connected]_vars

\* C21: a step of the idle sweep neither removes from the map nor disconnects
\* a session whose last_used is within idle_timeout of the current time, so
\* a session reused while the sweep is suspended disconnecting it is kept.
C21_SweepKeepsRecent ==
    [][SweepStep
        => \A i \in IdsOf(connections) :
              sessions[i].last_used >= now - idle_timeout
                 => /\ i \in IdsOf(connections')
                    /\ sessions'[i].is_connected = sessions[i].is_connected]_vars

\* caller p is inside get_connection's lookup/evict/create section,
\* suspended in the vendor's disconnect (line 187) or handshake (line 162)
InGetConnection(p) == calls[p].pc \in {"evict_wait", "connecting"}

\* the sweep is inside its scan-disconnect-remove section, suspended in the
\* vendor's disconnect (line 209)
InSweep == cleanup_task.pc = "disconnecting"

\* the step runs get_connection code that reads or mutates the map: the
\* lookup of a call that starts (line 143), the del of an eviction that
\* resumes (line 188), the store of a connect that returned (line 163)
CallerTouchesMap ==
    \/ ncalls' = ncalls + 1
    \/ \E p \in Callers : calls[p].pc = "evict_wait" /\ calls'[p] # calls[p]
    \/ \E p \in Callers :
          /\ calls[p].pc = "connecting"
          /\ calls'[p] # calls[p]
          /\ connections' # connections

\* the step runs sweep code that reads or mutates the map (lines 202-210)
SweepTouchesMap ==
    /\ SweepStep
    /\ cleanup_task' # cleanup_task \/ connections' # connections

\* C22: while the sweep is inside its section no get_connection code reads
\* or mutates the map, and while a get_connection call is inside its
\* section the sweep does not.
C22_MapExclusive ==
    [][/\ InSweep => ~CallerTouchesMap
       /\ (\E p \in Callers : InGetConnection(p)) => ~SweepTouchesMap]_vars

\* the step in which cleanup() returns (after line 135)
CleanupReturns == shutdown.pc # "done" /\ shutdown'.pc = "done"

\* C23: once cleanup() runs the sweep task is cancelled; when it returns the
\* map is empty and every session that was in the map has been disconnected
\* (a session with a vendor client excepted, whose disconnect may have
\* failed); after it has returned no session becomes connected or enters
\* the map, so requests in flight leave no connected session behind.
C23_ShutdownLeavesNothing ==
    [][/\ shutdown'.pc # "none" => cleanup_task'.pc \in {"none", "cancelled"}
       /\ CleanupReturns
            => /\ connections' = <<>>
               /\ \A i \in IdsOf(connections) :
                     ~sessions[i].client => ~sessions'[i].is_connected
       /\ shutdown.pc = "done"
            => /\ connections' = <<>>
               /\ \A i \in DOMAIN sessions' :
                     sessions'[i].is_connected
                        => (i \in DOMAIN sessions /\ sessions[i].is_connected)
      ]_vars

\* C24: a disconnect() call never raises: every disconnect() call that has
\* ended returned, on a session never connected, connected, already
\* disconnected, or whose vendor disconnect failed.
C24_DisconnectNeverRaises ==
    last.op = "disconnect" => last.outcome = "returned"

\* C24 witness: the vendor's disconnect failed and disconnect() returned,
\* leaving the session marked connected
C24_Witness ==
    /\ last.op = "disconnect"
    /\ last.failed
    /\ last.outcome = "returned"
    /\ sessions[last.conn].is_connected

\* the vendor handshake awaited by caller p's connect is over and failed:
\* connect counts every handshake that succeeds in connection_count
HandshakeFailed(p) ==
    /\ calls[p].pc = "connecting"
    /\ calls'[p] # calls[p]
    /\ sessions'[calls[p].conn].connection_count
          = sessions[calls[p].conn].connection_count

\* C25: when the vendor handshake of a connect fails, the session's
\* error_count grows by 1 and the session is not connected; the call that
\* ran the connect ends by raising, with no further connect attempt and no
\* new session; the map and the pool's counters are unchanged and the
\* failed session is not in the map.
C25_ConnectFailureSurfaced ==
    [][\A p \in Callers :
        HandshakeFailed(p)
        => LET id == calls[p].conn IN
           /\ sessions'[id].error_count = sessions[id].error_count + 1
           /\ ~sessions'[id].is_connected
           /\ CallEnded
           /\ last'.outcome = "raised"
           /\ calls'[p].pc = "idle"
           /\ Len(sessions') = Len(sessions)
           /\ connections' = connections
           /\ id \notin IdsOf(connections')
           /\ stats' = stats]_vars

\* C25 witness: a get_connection call with credentials raised after its
\* handshake failed; its session counted the error and is not in the map
C25_Witness ==
    /\ last.op = "get_connection"
    /\ last.outcome = "raised"
    /\ last.error = "ConnectError"
    /\ stats.connections_created = 0
    /\ \E i \in DOMAIN sessions :
          /\ sessions[i].key = last.key
          /\ sessions[i].error_count = 1
          /\ ~sessions[i].is_connected
          /\ i \notin IdsOf(connections)

\* the step is the start of a call whose get_connection reused session i
ReusedBy(i) ==
    /\ ncalls' = ncalls + 1
    /\ StartedFrame.reused
    /\ StartedFrame.conn = i

\* C26: last_used of a session changes only in a step in which a
\* get_connection call reuses that session, and then becomes the current
\* time; no step of a creation, of a failed call, of a trade, of an
\* eviction, of the sweep or of the shutdown changes it.
C26_LastUsedOnlyOnReuse ==
    [][\A i \in DOMAIN sessions :
        sessions'[i].last_used # sessions[i].last_used
            => /\ ReusedBy(i)
               /\ sessions'[i].last_used = now]_vars

\* C26 witness: a session created through a vendor handshake that ended at
\* a later clock reading keeps the last_used of its construction, while
\* another session was reused and touched
C26_Witness ==
    /\ last.reused
    /\ sessions[last.conn].last_used = now
    /\ \E i \in IdsOf(connections) :
          /\ sessions[i].connection_count = 1
          /\ sessions[i].last_used < now
          /\ i # last.conn

\* C27: GET /account/{id} answers 404 when the pool's get_account_info
\* returned an absent value, and 200 with the mapped account info otherwise.
C27_AccountNotFound ==
    last.op = "get_account_info"
        => get_account_info_handler(last)
              = IF last.result = "absent" THEN 404 ELSE 200

\* C28: GET /prices/{symbol} answers 404 when the pool's get_price returned
\* an absent value, and 200 with the quote otherwise.
C28_PriceNotFound ==
    last.op = "get_price"
        => get_price_handler(last) = IF last.result = "absent" THEN 404 ELSE 200

\* the resource loads without a raise: it is there, it parses, and every
\* entry has a 'cTraderId'
LoadsCleanly(cfg) ==
    /\ cfg.kind = "json"
    /\ \A i \in 1..Len(cfg.entries) : cfg.entries[i].cTraderId # None

\* the neutral symbols a resource configures
ConfiguredSymbols(cfg) == {cfg.entries[i].symbol : i \in 1..Len(cfg.entries)}

\* neutral -> vendor -> neutral gives the symbol back
RoundTrip(m, sym) == reverse_symbol(m, symbol_id(m, sym)) = sym

\* C29: for a mapper constructed from a resource that loaded, every neutral
\* symbol of the resource is given back by the forward lookup of its vendor
\* id followed by the reverse lookup of that id.
C29_SymbolRoundTrip ==
    (mapper.outcome = "returned" /\ LoadsCleanly(config))
        => \A sym \in ConfiguredSymbols(config) : RoundTrip(mapper, sym)

\* the round trip for resources whose entries have pairwise distinct
\* vendor ids
RoundTripWhenDistinct ==
    (/\ mapper.outcome = "returned"
     /\ LoadsCleanly(config)
     /\ \A i, j \in 1..Len(config.entries) :
           i # j => config.entries[i].cTraderId # config.entries[j].cTraderId)
        => /\ get_all_symbols(mapper)
                 = [i \in 1..Len(config.entries) |-> config.entries[i].symbol]
           /\ \A sym \in ConfiguredSymbols(config) : RoundTrip(mapper, sym)

\* C30: a mapper constructed from a resource that is missing, does not
\* parse, or has an entry that makes the reverse mapping's construction
\* raise, is constructed all the same, with both mappings empty: every
\* forward and reverse lookup misses and get_all_symbols is empty.
C30_LoadFailureEmpty ==
    (mapper.outcome # "none" /\ ~LoadsCleanly(config))
        => /\ mapper.outcome = "returned"
           /\ mapper.symbol_mapping = <<>>
           /\ mapper.reverse_symbol_mapping = <<>>
           /\ \A sym \in NeutralSymbols : symbol_id(mapper, sym) = None
           /\ \A id \in Ids : reverse_symbol(mapper, id) = "none"
           /\ get_all_symbols(mapper) = <<>>

\* C30 witness: the second entry of the resource has no 'cTraderId', so the
\* load raised after the first entry had entered the reverse mapping
C30_Witness ==
    /\ mapper.outcome = "returned"
    /\ config.kind = "json"
    /\ Len(config.entries) = 2
    /\ config.entries[1].cTraderId # None
    /\ config.entries[2].cTraderId = None
    /\ mapper.symbol_mapping = <<>>
    /\ mapper.reverse_symbol_mapping = <<>>

\* ------------------------------------------ operations in flight and the sweep
\* the pool serving get_connection and get_account_info (the operation that
\* awaits a vendor call on the session get_connection returned, line 236)
\* while the idle sweep runs
NextInFlight ==
    \/ Tick
    \/ Initialize
    \/ SweepWake
    \/ SweepResume
    \/ \E p \in Callers : CallGetConnection(p)
    \/ \E p \in Callers : CallGetAccountInfo(p)
    \/ \E p \in Callers : ResumeEvict(p)
    \/ \E p \in Callers : ResumeConnect(p)
    \/ \E p \in Callers : ResumeSend(p)

SpecInFlight == Init /\ [][NextInFlight]_vars

\* caller p is suspended in the vendor call of an operation, on the session
\* its get_connection returned
InFlight(p) ==
    /\ calls[p].pc = "sending"
    /\ calls[p].op = "get_account_info"

\* C31: a session returned by get_connection to an operation is neither
\* removed from the map by an eviction or a sweep (which delete its key,
\* where a replacement leaves the key in the map) nor disconnected while
\* that operation is suspended in its vendor call on it
C31_InFlightSessionKept ==
    [][\A p \in Callers :
          InFlight(p) =>
             LET i == calls[p].conn
             IN  /\ i \in IdsOf(connections)
                        => HasKey(connections', sessions[i].key)
                 /\ sessions[i].is_connected => sessions'[i].is_connected]_vars

\* ------------------------------------------------- connect failing in a call
\* C32: a get_connection call that fails because connect raised has removed
\* no session from the map: none as stale (line 151) and none by eviction
\* (line 156), also when the pool was at capacity
C32_FailedConnectKeepsMap ==
    [][(/\ CallEnded
        /\ last'.op = "get_connection"
        /\ last'.outcome = "raised"
        /\ last'.error = "ConnectError")
          => last'.stale = NoConn /\ last'.evicted = NoConn]_vars

\* ------------------------------------------------ the flag after disconnect
\* C33: when a disconnect() call returns, the session is flagged
\* disconnected, also when the vendor's disconnect call failed
C33_DisconnectedAfterDisconnect ==
    [][(CallEnded /\ last'.op = "disconnect")
           => ~sessions'[last'.conn].is_connected]_vars

\* ----------------------------------------------- connected sessions and the map
\* C34: every session flagged connected is the value stored in the map
\* under its own key; a session that left the map (stale removal, eviction,
\* sweep, shutdown, replacement) is flagged disconnected
C34_ConnectedIsStored ==
    \A i \in DOMAIN sessions :
        sessions[i].is_connected
           => /\ HasKey(connections, sessions[i].key)
              /\ ConnOf(connections, sessions[i].key) = i

\* --------------------------------------- get_connection without credentials
\* the call ended by this step returned a session that is flagged connected
\* and is the map's value under the requested key
ReturnedStored ==
    /\ last'.outcome = "returned"
    /\ last'.conn \in DOMAIN sessions'
    /\ sessions'[last'.conn].is_connected
    /\ HasKey(connections', last'.key)
    /\ ConnOf(connections', last'.key) = last'.conn

\* C35: every get_connection call made without credentials ends by
\* returning, and the session it returns is then flagged connected and
\* stored in the map under the requested key, whatever the sweep and other
\* get_connection calls did while it was suspended (first conjunct: a call
\* resumed from its eviction's await; second: a call that awaited nothing
\* and so ends in the step that started it)
C35_CredentialLessReturns ==
    [][/\ \A p \in Callers :
            (/\ calls[p].pc # "idle"
             /\ calls[p].op = "get_connection"
             /\ ~calls[p].creds
             /\ calls'[p].pc = "idle") => ReturnedStored
       /\ (ncalls' = ncalls + 1 /\ CallEnded /\ last'.op = "get_connection")
             => ReturnedStored]_vars

\* ------------------------------------------------- the life of the sweep task
\* the task created by initialize() is running: asleep or inside a cycle
TaskAlive(task) == task.pc \in {"sleeping", "disconnecting"}

\* C36: the sweep task, once started, stops only by being cancelled (in the
\* step of cleanup() that calls task.cancel(), lines 128-129); a cycle that
\* raised is caught and leaves the task asleep before its next cycle
C36_SweepStopsOnlyCancelled ==
    [][/\ (TaskAlive(cleanup_task) /\ ~TaskAlive(cleanup_task'))
             => /\ shutdown.pc = "none"
                /\ shutdown'.pc # "none"
                /\ cleanup_task' = Cancelled
       /\ cleanup_task'.error # "none" => cleanup_task'.pc = "sleeping"]_vars

\* C36 witness: a cycle failed on a key that had left the map, and the task
\* sleeps towards its next cycle
C36_Witness ==
    /\ cleanup_task.pc = "sleeping"
    /\ cleanup_task.error = "KeyError"

\* ------------------------------------------------------------ get_stats
\* a get_stats that counts the sessions flagged connected instead of the
\* entries of the map
GetStatsOfConnected(S, f) ==
    Done(S,
         [f EXCEPT !.reply =
            [get_stats EXCEPT !.activeConnections =
                Cardinality({i \in DOMAIN S.sessions :
                                S.sessions[i].is_connected})]],
         "dict")

\* get_stats() (lines 534-543), a plain method: it reads the counters and
\* the size of the map and returns the dict
GetStats(S, f) == Done(S, [f EXCEPT !.reply = get_stats], "dict")

\* get_stats() is called
CallGetStats(p) ==
    /\ calls[p].pc = "idle"
    /\ Serving
    /\ NextCaller(p)
    /\ ApplyData(p, GetStats(Store, [IdleFrame EXCEPT !.op = "get_stats"]))
    /\ ncalls' = ncalls + 1
    /\ UNCHANGED <<fixed, now, cleanup_task, shutdown>>

\* the pool serving get_connection, execute_trade and get_stats, without
\* sweep and shutdown
NextStats ==
    \/ Tick
    \/ \E p \in Callers : CallGetConnection(p)
    \/ \E p \in Callers : CallExecuteTrade(p)
    \/ \E p \in Callers : CallGetStats(p)
    \/ \E p \in Callers : ResumeEvict(p)
    \/ \E p \in Callers : ResumeConnect(p)

SpecStats == Init /\ [][NextStats]_vars

\* C37: a get_stats call changes no pool state (map, sessions, caches,
\* counters), and it reports the number of entries of the map as
\* activeConnections and the four counters as they are at the call
C37_GetStatsReadsOnly ==
    [][(CallEnded /\ last'.op = "get_stats")
          => /\ connections' = connections
             /\ sessions' = sessions
             /\ stats' = stats
             /\ prices_cache' = prices_cache
             /\ mock_positions' = mock_positions
             /\ last'.reply.activeConnections = Len(connections)
             /\ last'.reply.connectionsCreated = stats.connections_created
             /\ last'.reply.connectionsReused = stats.connections_reused
             /\ last'.reply.tradesExecuted = stats.trades_executed
             /\ last'.reply.errors = stats.errors]_vars

\* C37 witness: get_stats was called on a pool with sessions in its map and
\* reported a map smaller than the number of sessions created
C37_Witness ==
    /\ last.op = "get_stats"
    /\ last.reply.activeConnections = Len(connections)
    /\ last.reply.activeConnections > 0
    /\ last.reply.activeConnections < last.reply.connectionsCreated

\* ------------------------------------------------------- is_cache_valid
\* sessions whose cache_timestamp is None (line 44) or set to the reading of
\* datetime.now() (lines 248, 276, 304), in a pool that is not otherwise
\* used
InitCache ==
    /\ HAS_CTRADER_API \in BOOLEAN
    /\ now = 0
    /\ connections = <<>>
    /\ \E n \in 1..NumKeys :
         \E ts \in [1..n -> {NoTime, now}] :
            sessions = [i \in 1..n |->
                           [NewSession(i, 0) EXCEPT !.cache_timestamp = ts[i]]]
    /\ stats = [connections_created |-> 0, connections_reused |-> 0,
                trades_executed |-> 0, errors |-> 0]
    /\ calls = [p \in Callers |-> IdleFrame]
    /\ last = IdleFrame
    /\ ncalls = 0
    /\ cleanup_task = NoTask
    /\ shutdown = [pc |-> "none", conns |-> <<>>]
    /\ prices_cache = [sym \in Symbols |-> NoTime]
    /\ mock_positions = {}
    /\ config = StandardConfig
    /\ mapper = CTraderDataMapper(config)

\* is_cache_valid(max_age_seconds) of session i is called with a max age
\* the pool passes (lines 239, 266; 1 is also the default of line 99); it
\* returns within the call
CallIsCacheValid(p) ==
    \E i \in DOMAIN sessions,
       max_age_seconds \in {positions_max_age, account_info_max_age} :
        WrapperCalled(p, "is_cache_valid", i,
            Done(Store,
                 [IdleFrame EXCEPT !.op = "is_cache_valid", !.conn = i,
                                   !.key = sessions[i].key,
                                   !.max_age_seconds = max_age_seconds],
                 IF is_cache_valid(sessions[i], max_age_seconds, now)
                 THEN "true" ELSE "false"))

NextCache ==
    \/ Tick
    \/ \E p \in Callers : CallIsCacheValid(p)

SpecCache == InitCache /\ [][NextCache]_vars

\* C38: is_cache_valid(max_age) returns false for a session without cache
\* timestamp, and otherwise true exactly when the current time minus the
\* timestamp is strictly less than max_age seconds
C38_CacheValidity ==
    [][(CallEnded /\ last'.op = "is_cache_valid")
          => LET s == sessions[last'.conn] IN
             /\ last'.result \in {"true", "false"}
             /\ s.cache_timestamp = NoTime => last'.result = "false"
             /\ s.cache_timestamp # NoTime
                  => (last'.result = "true"
                        <=> now - s.cache_timestamp < last'.max_age_seconds)
      ]_vars

\* C38 witness: a cache exactly max_age seconds old was found invalid
C38_Witness ==
    /\ last.op = "is_cache_valid"
    /\ sessions[last.conn].cache_timestamp # NoTime
    /\ now - sessions[last.conn].cache_timestamp = last.max_age_seconds
    /\ last.result = "false"

====
